---- MODULE Spec2Model ----
(***************************************************************************)
(* Batch inference of the provider adapters                                *)
(* (langextract/providers/anthropic.py and mistral.py, which differ only   *)
(* in names and in the default of max_tokens).                             *)
(*                                                                         *)
(* infer() is a Python generator: its body runs only while the caller is   *)
(* inside next().  With more than one prompt and more than one configured  *)
(* worker the body submits every prompt to a ThreadPoolExecutor, collects  *)
(* the futures with as_completed into a list indexed by position and then  *)
(* yields the list element by element; otherwise it calls                  *)
(* _process_single_prompt prompt by prompt and yields after each call.     *)
(***************************************************************************)
EXTENDS Integers, Sequences, FiniteSets, TLC

\* Bounds of the model.
MaxBatch == 3
MaxWorkers == 3
\* Batches longer than this, and calls that never return, are explored with the
\* default settings only.
MaxOptionBatch == 2
\* Registrations made after the built-in ones.
MaxEntries == 2

\* The prompt strings a batch is drawn from.
Prompts == {"p", "q"}

\* Values of the constructor arguments.  Python's None is written "None" where
\* the other values are strings.
ApiKeys == {"None", "", "sk-key"}
Temperatures == {"0.0", "0.7"}
FormatTypes == {"JSON", "YAML"}

\* Keyword arguments of infer the code looks at, and the values tried.
OptionKeys == {"temperature", "max_output_tokens", "top_p"}
OptionValues(key) ==
  CASE key = "temperature" -> {"0.3"}
    [] key = "max_output_tokens" -> {"256"}
    [] key = "top_p" -> {"None", "0.9"}

VARIABLES
  dependency,      \* environment: the anthropic package can be imported
  env_api_key,     \* environment: ANTHROPIC_API_KEY, "None" when not set
  inst,            \* "unbuilt", "ready", or "failed" when __init__ raised
  config_error,    \* the InferenceConfigError of a failed construction
  api_key_arg,     \* history: the api_key argument given to __init__
  client_sets,     \* history: number of assignments to self._client
  init_args,       \* history: the arguments given to __init__
  extra_kwargs,    \* self._extra_kwargs
  model_id,        \* self.model_id
  api_key,         \* self.api_key
  base_url,        \* self.base_url
  format_type,     \* self.format_type
  temperature,     \* self.temperature
  client,          \* self._client
  max_workers,     \* self.max_workers, fixed at construction
  kwargs,          \* the keyword arguments of the current infer call
  hanging,         \* environment: positions whose remote call never returns
  config,          \* the dict config of the generator body
  sent,            \* history: keyword arguments of the remote call of a position
  entries,         \* the registry: registered entries, oldest first
  register_error,  \* the error of the last register call, "None" when it succeeded
  resolved,        \* outcome of the last resolve call since the last registration
  register_patterns, \* history: the pattern set given to the last register call
  seen,            \* history: outcomes of the resolve calls since the last registration
  listed,          \* what the last list_entries call returned, << >> before any
  batch_prompts,   \* the argument of the current infer call
  failing,         \* environment: positions whose remote call raises
  gen,             \* state of the generator object returned by infer
  pc,              \* place of the generator body
  k,               \* position of the loop the body is in (1-based)
  executor,        \* TRUE while inside the with-block of the thread pool
  pool_size,       \* max_workers given to the ThreadPoolExecutor
  submitted,       \* number of prompts handed to executor.submit so far
  task,            \* per position: state of the call of _process_single_prompt
  future,          \* per position: outcome held by the future
  collected,       \* futures already delivered by as_completed
  results,         \* the list results of the parallel branch
  yielded,         \* result groups the caller has received from this call
  error,           \* exception raised by the body (pending or delivered)
  issued,          \* history: number of remote calls made per position
  request,         \* history: prompt sent by the remote call of a position
  response,        \* history: what the remote call of a position returned
  pool_used,       \* history: this call created a worker pool
  pending_at_failure, \* history: positions not yet run when the raise started
  reordered        \* history: a future was collected before one of a lower position

instance == << model_id, api_key, base_url, format_type, temperature, client,
              extra_kwargs >>
environment == << dependency, env_api_key >>
construction == << inst, config_error, api_key_arg, client_sets, init_args >>
call_inputs == << kwargs, hanging >>
registry == << entries, register_error, resolved, register_patterns, seen,
              listed >>
static == << instance, environment, construction, call_inputs, registry >>

vars == << static, config, sent, max_workers, batch_prompts, failing, gen, pc, k, executor,
           pool_size, submitted, task, future, collected, results, yielded,
           error, issued, request, response, pool_used, pending_at_failure,
           reordered >>

N == Len(batch_prompts)
Pos == 1..N

Min(a, b) == IF a < b THEN a ELSE b

\* Python's None, and "no exception".
None == [type |-> "None"]

\* All sequences over S of length at most n.
SeqUpTo(S, n) == UNION { [1..m -> S] : m \in 0..n }

-----------------------------------------------------------------------------
(* Values *)

\* Faulty variant: the score is left at zero.
ScoredOutputUnscored(output_text) == [score |-> 0, output |-> output_text]

\* inference.ScoredOutput(score=1.0, output=output_text)
ScoredOutput(output_text) == [score |-> 1, output |-> output_text]

\* The exception a remote call raises at position i (any Exception).
BackendError(i) == [type |-> "BackendError", at |-> i]

\* exceptions.InferenceRuntimeError(message, original=e)
InferenceRuntimeError(e) == [type |-> "InferenceRuntimeError", original |-> e]

\* The text the backend returns for a prompt.
Completion(prompt) == << "completion", prompt >>

\* A dict with no key.
EmptyDict == [key \in {} |-> "None"]

\* All dicts of keyword arguments tried for infer.
KwargsSet ==
  UNION { { kw \in [D -> UNION { OptionValues(key) : key \in OptionKeys }] :
              \A key \in D : kw[key] \in OptionValues(key) } :
          D \in SUBSET OptionKeys }

\* Extra named options given to the constructor: none, or options that would
\* change the remote call if they were looked at.
ExtraOptions ==
  { EmptyDict, [key \in {"max_output_tokens", "top_p"} |->
                  IF key = "top_p" THEN "0.9" ELSE "256"] }

\* The arguments of a constructor call; NoArgs before any call.
Args(model, key, url, fmt, temp, workers, extra) ==
  [ model_id |-> model, api_key |-> key, base_url |-> url, format_type |-> fmt,
    temperature |-> temp, max_workers |-> workers, kwargs |-> extra ]
NoArgs == [model_id |-> "None"]

\* dict.get(key, default)
DictGet(d, key, default) == IF key \in DOMAIN d THEN d[key] ELSE default

\* Faulty variant: the instance temperature always wins.
BuildConfigIgnoringOverride(kw, self_temperature) ==
  [key \in {"temperature"} \cup (DOMAIN kw \cap {"max_output_tokens", "top_p"}) |->
     IF key = "temperature" THEN self_temperature ELSE kw[key]]

\* config = {'temperature': kwargs.get('temperature', self.temperature)}, plus
\* max_output_tokens and top_p when they are in kwargs.
BuildConfig(kw, self_temperature) ==
  [key \in {"temperature"} \cup (DOMAIN kw \cap {"max_output_tokens", "top_p"}) |->
     IF key = "temperature" THEN DictGet(kw, "temperature", self_temperature)
                            ELSE kw[key]]

\* max_tokens=config.get('max_output_tokens', 4096)
DefaultMaxTokens == "4096"

\* The system message for the output format.
SystemMessage(fmt) ==
  CASE fmt = "JSON" -> "You are a helpful assistant that responds in JSON format."
    [] fmt = "YAML" -> "You are a helpful assistant that responds in YAML format."
    [] OTHER -> ""

\* messages: the system message when there is one, then the user prompt.
Messages(fmt, prompt) ==
  (IF SystemMessage(fmt) # ""
     THEN << [role |-> "system", content |-> SystemMessage(fmt)] >>
     ELSE << >>)
  \o << [role |-> "user", content |-> prompt] >>

\* Faulty variant: a default value stands in for an absent top_p.
TopPDefaulted(cfg) == DictGet(cfg, "top_p", "1.0")

\* top_p=config.get('top_p')
TopP(cfg) == DictGet(cfg, "top_p", "None")

\* The keyword arguments of self._client.messages.create.
CallArgs(model, fmt, self_temperature, prompt, cfg) ==
  [ model |-> model,
    messages |-> Messages(fmt, prompt),
    temperature |-> DictGet(cfg, "temperature", self_temperature),
    max_tokens |-> DictGet(cfg, "max_output_tokens", DefaultMaxTokens),
    top_p |-> TopP(cfg) ]

\* The keyword arguments of self._client.chat.complete in the Mistral adapter:
\* max_tokens=config.get('max_output_tokens'), with no default.
MistralCallArgs(model, fmt, self_temperature, prompt, cfg) ==
  [ model |-> model,
    messages |-> Messages(fmt, prompt),
    temperature |-> DictGet(cfg, "temperature", self_temperature),
    max_tokens |-> DictGet(cfg, "max_output_tokens", "None"),
    top_p |-> TopP(cfg) ]

\* No remote call made.
NoCall == [model |-> "None"]

\* anthropic.Anthropic(api_key=..., base_url=...)
Client(key, url) == [api_key |-> key, base_url |-> url]

\* Faulty variant: only None counts as no credential.
NoCredentialOnlyNone(key) == key = "None"

\* if not self.api_key
NoCredential(key) == key \in {"None", ""}

\* The settings infer is explored with for batches of any length.
DefaultSettings ==
  /\ temperature = "0.0"
  /\ format_type = "JSON"
  /\ env_api_key = "None"
  /\ extra_kwargs = EmptyDict

\* self._client.messages.create(...) / self._client.chat.complete(...):
\* returns a response or raises.
RemoteCall(prompt, i) ==
  IF i \in failing
    THEN [ok |-> FALSE, val |-> BackendError(i)]
    ELSE [ok |-> TRUE, val |-> Completion(prompt)]

\* Faulty variant: the except clause lets the backend exception through
\* unwrapped.
ProcessSinglePromptNoWrap(prompt, i) ==
  LET r == RemoteCall(prompt, i)
  IN  IF r.ok THEN [ok |-> TRUE, val |-> ScoredOutput(r.val)]
              ELSE [ok |-> FALSE, val |-> r.val]

\* _process_single_prompt: one remote call; the text wrapped in a ScoredOutput,
\* any exception wrapped in an InferenceRuntimeError.
ProcessSinglePrompt(prompt, i) ==
  LET r == RemoteCall(prompt, i)
  IN  IF r.ok THEN [ok |-> TRUE, val |-> ScoredOutput(r.val)]
              ELSE [ok |-> FALSE, val |-> InferenceRuntimeError(r.val)]

\* Faulty variant: a failed call is put back to be tried again.
TaskAfterCallRetry(o) == IF o.ok THEN "ok" ELSE "queued"

\* State of a call once _process_single_prompt has returned or raised; there is
\* no retry loop.
TaskAfterCall(o) == IF o.ok THEN "ok" ELSE "fail"

\* Faulty variant: the pool is used for any batch of more than one prompt.
UsePoolAnyWorkers(n, workers) == n > 1

\* Faulty variant: the size of the batch is not looked at.
UsePoolByWorkersOnly(n, workers) == workers > 1

\* if len(batch_prompts) > 1 and self.max_workers > 1
UsePool(n, workers) == n > 1 /\ workers > 1

\* Faulty variant: one worker thread per prompt.
PoolSizePerPrompt(n, workers) == n

\* max_workers=min(self.max_workers, len(batch_prompts))
PoolSize(n, workers) == Min(workers, n)

\* Faulty variant: results are stored in completion order.
StoreResultInCompletionOrder(res, index, value) ==
  LET free == { j \in DOMAIN res : res[j] = None }
  IN  [res EXCEPT ![CHOOSE j \in free : \A l \in free : j <= l] = value]

\* results[index] = future.result()
StoreResult(res, index, value) == [res EXCEPT ![index] = value]

\* Faulty variant: the loop stops one element early.
LoopDoneEarly(i, n) == i >= n

\* The for loops over results and over batch_prompts are done after the last
\* element.
LoopDone(i, n) == i > n

\* yield [result]
ResultGroup(result) == << result >>

\* Faulty variant: the test for an unfilled slot is left out.
IsMissingNever(result) == FALSE

\* if result is None
IsMissing(result) == result = None

\* Faulty variant: executor.shutdown(wait=False).
ShutdownMayReturnNoWait(t) == TRUE

\* Leaving the with-block calls executor.shutdown(wait=True): it returns once
\* no submitted call is queued or running.  Nothing is cancelled.
ShutdownMayReturn(t) == \A i \in DOMAIN t : t[i] \in {"ok", "fail"}

\* Faulty variant: only the futures that hold a value count as completed.
FinishedWithValue == { i \in 1..Len(task) : task[i] = "ok" }

Running == { i \in Pos : task[i] = "running" }
Queued == { i \in Pos : task[i] = "queued" }
Finished == { i \in Pos : task[i] \in {"ok", "fail"} }
Failed == { i \in Pos : task[i] = "fail" }

-----------------------------------------------------------------------------
(* The provider registry.  Its module is not among the sources; resolution  *)
(* and registration follow the design document, the built-in entries follow *)
(* the register decorators of the two provider classes.  A model id is a    *)
(* sequence of tokens and a pattern '^abc-' matches the ids that start with *)
(* its tokens.                                                              *)

Pattern(regex, prefix) == [regex |-> regex, prefix |-> prefix]

\* @registry.register(r'^claude-', priority=10) and
\* @registry.register(r'^mistral-', priority=10)
BuiltinEntries ==
  << [ patterns |-> { Pattern("^claude-", << "claude", "-" >>) },
       priority |-> 10, constructor |-> "AnthropicLanguageModel" ],
     [ patterns |-> { Pattern("^mistral-", << "mistral", "-" >>) },
       priority |-> 10, constructor |-> "MistralLanguageModel" ] >>

\* The entry the registration test expects for the third backend; the class
\* that registers it is not among the sources, so its priority is left open.
GrokEntry(priority) ==
  [ patterns |-> { Pattern("^grok-", << "grok", "-" >>) },
    priority |-> priority, constructor |-> "GrokLanguageModel" ]

\* The registry once the library is imported.
InitialEntries(grok_priority) == Append(BuiltinEntries, GrokEntry(grok_priority))

\* Patterns, priorities and constructors of the registrations tried.
ExtraPatterns ==
  { Pattern("^foo-", << "foo", "-" >>),
    Pattern("^foo-bar", << "foo", "-", "bar" >>) }
Priorities == {5, 10}
Constructors == {"P1", "P2"}

\* Model ids resolved.
ModelIds ==
  { << "foo", "-", "bar", "-", "1" >>,
    << "foo", "-", "baz" >>,
    << "claude", "-", "3" >>,
    << "unknown", "-", "model", "-", "xyz" >> }

\* The regex applied as a prefix match against the id.
PatternMatches(pat, id) ==
  /\ Len(pat.prefix) <= Len(id)
  /\ \A n \in 1..Len(pat.prefix) : pat.prefix[n] = id[n]

\* Positions of the entries with a pattern matching the id.
Matching(es, id) ==
  { i \in DOMAIN es : \E pat \in es[i].patterns : PatternMatches(pat, id) }

NotResolved == [model_id |-> << >>, ok |-> FALSE, val |-> "None"]

\* Faulty variant: among matches of equal priority the earliest registered wins.
ResolveFirstRegistered(es, id) ==
  LET m == Matching(es, id)
  IN  IF m = {}
        THEN [model_id |-> id, ok |-> FALSE, val |-> "NoProviderError"]
        ELSE LET best == CHOOSE i \in m : \A j \in m :
                           \/ es[j].priority < es[i].priority
                           \/ es[j].priority = es[i].priority /\ i <= j
             IN  [model_id |-> id, ok |-> TRUE, val |-> es[best].constructor]

\* Faulty variant: with no match the latest registered entry is returned.
ResolveDefaulting(es, id) ==
  LET m == IF Matching(es, id) = {} THEN {Len(es)} ELSE Matching(es, id)
      best == CHOOSE i \in m : \A j \in m :
                \/ es[j].priority < es[i].priority
                \/ es[j].priority = es[i].priority /\ j <= i
  IN  [model_id |-> id, ok |-> TRUE, val |-> es[best].constructor]

\* Faulty variant: the match with the longest pattern wins.
ResolveMostSpecific(es, id) ==
  LET m == Matching(es, id)
      Longest(i) == CHOOSE n \in 0..Len(id) :
                      /\ \E pat \in es[i].patterns :
                           PatternMatches(pat, id) /\ Len(pat.prefix) = n
                      /\ \A pat \in es[i].patterns :
                           PatternMatches(pat, id) => Len(pat.prefix) <= n
  IN  IF m = {}
        THEN [model_id |-> id, ok |-> FALSE, val |-> "NoProviderError"]
        ELSE LET best == CHOOSE i \in m : \A j \in m :
                           \/ Longest(j) < Longest(i)
                           \/ Longest(j) = Longest(i) /\ j <= i
             IN  [model_id |-> id, ok |-> TRUE, val |-> es[best].constructor]

\* resolve(model_id): the constructor of the matching entry of highest
\* priority, the latest registered among equals; NoProviderError when no entry
\* matches.
Resolve(es, id) ==
  LET m == Matching(es, id)
  IN  IF m = {}
        THEN [model_id |-> id, ok |-> FALSE, val |-> "NoProviderError"]
        ELSE LET best == CHOOSE i \in m : \A j \in m :
                           \/ es[j].priority < es[i].priority
                           \/ es[j].priority = es[i].priority /\ j <= i
             IN  [model_id |-> id, ok |-> TRUE, val |-> es[best].constructor]

-----------------------------------------------------------------------------
(* Initial state: the class is defined, no instance is built; the fields hold *)
(* the class defaults.                                                      *)

DefaultMaxWorkers == 10

Init ==
  /\ dependency \in BOOLEAN
  /\ env_api_key \in {"None", "env-key"}
  /\ inst = "unbuilt"
  /\ config_error = "None"
  /\ api_key_arg = "None"
  /\ client_sets = 0
  /\ init_args = NoArgs
  /\ extra_kwargs = EmptyDict
  /\ model_id = "claude-3-5-sonnet-latest"
  /\ api_key = "None"
  /\ base_url = "None"
  /\ format_type = "JSON"
  /\ temperature = "0.0"
  /\ client = None
  /\ max_workers = DefaultMaxWorkers
  /\ kwargs = EmptyDict
  /\ hanging = {}
  /\ config = EmptyDict
  /\ sent = << >>
  /\ entries = InitialEntries(10)
  /\ register_error = "None"
  /\ resolved = NotResolved
  /\ register_patterns = GrokEntry(10).patterns
  /\ seen = {}
  /\ listed = << >>
  /\ batch_prompts = << >>
  /\ failing = {}
  /\ gen = "none"
  /\ pc = "end"
  /\ k = 0
  /\ executor = FALSE
  /\ pool_size = 0
  /\ submitted = 0
  /\ task = << >>
  /\ future = << >>
  /\ collected = {}
  /\ results = << >>
  /\ yielded = << >>
  /\ error = None
  /\ issued = << >>
  /\ request = << >>
  /\ response = << >>
  /\ pool_used = FALSE
  /\ pending_at_failure = {}
  /\ reordered = FALSE

-----------------------------------------------------------------------------
(* The caller *)

\* Faulty variant: an extra named option is refused, as a constructor without
\* **kwargs would.
ConstructRejectingExtras(model, key, url, fmt, temp, workers, extra) ==
  /\ inst = "unbuilt"
  /\ api_key_arg' = key
  /\ init_args' = Args(model, key, url, fmt, temp, workers, extra)
  /\ IF extra # EmptyDict
       THEN /\ inst' = "failed"
            /\ config_error' = "TypeError"
            /\ UNCHANGED << instance, max_workers, client_sets >>
       ELSE IF ~ dependency
       THEN /\ inst' = "failed"
            /\ config_error' = "Anthropic provider requires anthropic package."
            /\ UNCHANGED << instance, max_workers, client_sets >>
       ELSE /\ model_id' = model
            /\ api_key' = key
            /\ base_url' = url
            /\ format_type' = fmt
            /\ temperature' = temp
            /\ max_workers' = workers
            /\ extra_kwargs' = extra
            /\ IF NoCredential(key)
                 THEN /\ inst' = "failed"
                      /\ config_error' = "API key not provided for Anthropic."
                      /\ UNCHANGED << client, client_sets >>
                 ELSE /\ inst' = "ready"
                      /\ client' = Client(key, url)
                      /\ client_sets' = client_sets + 1
                      /\ UNCHANGED config_error
  /\ UNCHANGED << environment, call_inputs, registry, config, sent, batch_prompts,
                  failing, gen, pc, k, executor, pool_size, submitted, task,
                  future, collected, results, yielded, error, issued, request,
                  response, pool_used, pending_at_failure, reordered >>

\* Faulty variant: the fields are assigned and the credential is looked at
\* before the package is imported.
ConstructCheckingKeyFirst(model, key, url, fmt, temp, workers, extra) ==
  /\ inst = "unbuilt"
  /\ api_key_arg' = key
  /\ init_args' = Args(model, key, url, fmt, temp, workers, extra)
  /\ model_id' = model
  /\ api_key' = key
  /\ base_url' = url
  /\ format_type' = fmt
  /\ temperature' = temp
  /\ max_workers' = workers
  /\ extra_kwargs' = extra
  /\ IF NoCredential(key)
       THEN /\ inst' = "failed"
            /\ config_error' = "API key not provided for Anthropic."
            /\ UNCHANGED << client, client_sets >>
       ELSE IF ~ dependency
       THEN /\ inst' = "failed"
            /\ config_error' = "Anthropic provider requires anthropic package."
            /\ UNCHANGED << client, client_sets >>
       ELSE /\ inst' = "ready"
            /\ client' = Client(key, url)
            /\ client_sets' = client_sets + 1
            /\ UNCHANGED config_error
  /\ UNCHANGED << environment, call_inputs, registry, config, sent, batch_prompts,
                  failing, gen, pc, k, executor, pool_size, submitted, task,
                  future, collected, results, yielded, error, issued, request,
                  response, pool_used, pending_at_failure, reordered >>

\* AnthropicLanguageModel(model_id, api_key, base_url, format_type,
\* temperature, max_workers): the import first, then the fields, then the
\* credential test, then the client.
Construct(model, key, url, fmt, temp, workers, extra) ==
  /\ inst = "unbuilt"
  /\ api_key_arg' = key
  /\ init_args' = Args(model, key, url, fmt, temp, workers, extra)
  /\ IF ~ dependency
       THEN /\ inst' = "failed"
            /\ config_error' = "Anthropic provider requires anthropic package."
            /\ UNCHANGED << instance, max_workers, client_sets >>
       ELSE /\ model_id' = model
            /\ api_key' = key
            /\ base_url' = url
            /\ format_type' = fmt
            /\ temperature' = temp
            /\ max_workers' = workers
            /\ extra_kwargs' = extra
            /\ IF NoCredential(key)
                 THEN /\ inst' = "failed"
                      /\ config_error' = "API key not provided for Anthropic."
                      /\ UNCHANGED << client, client_sets >>
                 ELSE /\ inst' = "ready"
                      /\ client' = Client(key, url)
                      /\ client_sets' = client_sets + 1
                      /\ UNCHANGED config_error
  /\ UNCHANGED << environment, call_inputs, registry, config, sent, batch_prompts,
                  failing, gen, pc, k, executor, pool_size, submitted, task,
                  future, collected, results, yielded, error, issued, request,
                  response, pool_used, pending_at_failure, reordered >>

\* it = provider.infer(batch, **kw): calling a generator function runs none of
\* its body.  The environment fixes which remote calls of the batch will raise
\* and which will never return.
Infer(batch, f, h, kw) ==
  /\ inst = "ready"
  /\ gen = "none"
  \* infer never looks at the environment: explored with no credential there
  /\ env_api_key = "None"
  /\ \/ DefaultSettings /\ kw = EmptyDict
     \/ Len(batch) <= MaxOptionBatch /\ h = {}
  /\ kwargs' = kw
  /\ hanging' = h
  /\ config' = EmptyDict
  /\ sent' = [i \in 1..Len(batch) |-> NoCall]
  /\ batch_prompts' = batch
  /\ failing' = f
  /\ gen' = "created"
  /\ pc' = "start"
  /\ k' = 0
  /\ executor' = FALSE
  /\ pool_size' = 0
  /\ submitted' = 0
  /\ task' = [i \in 1..Len(batch) |-> "new"]
  /\ future' = [i \in 1..Len(batch) |-> None]
  /\ collected' = {}
  /\ results' = << >>
  /\ yielded' = << >>
  /\ error' = None
  /\ issued' = [i \in 1..Len(batch) |-> 0]
  /\ request' = [i \in 1..Len(batch) |-> "-"]
  /\ response' = [i \in 1..Len(batch) |-> None]
  /\ pool_used' = FALSE
  /\ pending_at_failure' = {}
  /\ reordered' = FALSE
  /\ UNCHANGED << instance, environment, construction, registry, max_workers >>

\* The caller lets go of a generator that has ended; the provider is free for
\* the next infer call.
Discard ==
  /\ gen \in {"exhausted", "raised", "closed"}
  /\ gen' = "none"
  /\ pc' = "end"
  /\ k' = 0
  /\ kwargs' = EmptyDict
  /\ hanging' = {}
  /\ config' = EmptyDict
  /\ sent' = << >>
  /\ batch_prompts' = << >>
  /\ failing' = {}
  /\ pool_size' = 0
  /\ submitted' = 0
  /\ task' = << >>
  /\ future' = << >>
  /\ collected' = {}
  /\ results' = << >>
  /\ yielded' = << >>
  /\ error' = None
  /\ issued' = << >>
  /\ request' = << >>
  /\ response' = << >>
  /\ pool_used' = FALSE
  /\ pending_at_failure' = {}
  /\ reordered' = FALSE
  /\ UNCHANGED << instance, environment, construction, registry, max_workers,
                  executor >>

\* The body from its first line to the choice of the branch.
EnterBody ==
  /\ gen = "created"
  /\ gen' = "running"
  /\ config' = BuildConfig(kwargs, temperature)
  /\ IF UsePool(N, max_workers)
       THEN /\ executor' = TRUE
            /\ pool_used' = TRUE
            /\ pool_size' = PoolSize(N, max_workers)
            /\ pc' = "submit"
            /\ k' = 0
       ELSE /\ pc' = "seq"
            /\ k' = 1
            /\ UNCHANGED << executor, pool_used, pool_size >>
  /\ UNCHANGED << sent, max_workers, batch_prompts, failing, submitted,
                  task, future, collected, results, yielded, error, issued,
                  request, response, pending_at_failure, reordered >>

\* Faulty variant: the effective temperature is written back to the instance.
NextFirstStoringTemperature ==
  /\ EnterBody
  /\ temperature' = BuildConfig(kwargs, temperature)["temperature"]
  /\ UNCHANGED << model_id, api_key, base_url, format_type, client,
                  extra_kwargs, environment, construction, call_inputs, registry >>

\* First next(it): the body runs up to the choice of the branch; no field of
\* self is assigned.
NextFirst ==
  /\ EnterBody
  /\ UNCHANGED static

\* for prompt in batch_prompts: result = self._process_single_prompt(...);
\* yield [result] -- the groups the sequential loop yields from prompt i on
\* when no call raises.
RECURSIVE SequentialRun(_, _)
SequentialRun(batch, i) ==
  IF LoopDone(i, Len(batch))
    THEN << >>
    ELSE << ResultGroup(ProcessSinglePrompt(batch[i], i).val) >>
         \o SequentialRun(batch, i + 1)

\* A later next(it): the body resumes after the yield, at the next element.
NextResume ==
  /\ gen = "suspended"
  /\ gen' = "running"
  /\ k' = k + 1
  /\ UNCHANGED << static, config, sent, max_workers, batch_prompts, failing, pc, executor, pool_size,
                  submitted, task, future, collected, results, yielded, error,
                  issued, request, response, pool_used, pending_at_failure,
                  reordered >>

\* The caller drops the generator at a yield (or before it started): close()
\* raises GeneratorExit at the yield; inside the with-block the pool is shut
\* down, which returns at once because every call has finished by then.
Close ==
  /\ gen \in {"created", "suspended"}
  /\ executor => ShutdownMayReturn(task)
  /\ gen' = "closed"
  /\ pc' = IF gen = "created" THEN "start" ELSE "end"
  /\ executor' = FALSE
  /\ UNCHANGED << static, config, sent, max_workers, batch_prompts, failing, k, pool_size, submitted,
                  task, future, collected, results, yielded, error, issued,
                  request, response, pool_used, pending_at_failure,
                  reordered >>

-----------------------------------------------------------------------------
(* Parallel branch *)

\* executor.submit(self._process_single_prompt, prompt, config.copy()) for the
\* next prompt of the dict comprehension; after the last one, results is
\* allocated and as_completed starts.
Submit ==
  /\ gen = "running" /\ pc = "submit"
  /\ submitted < N
  /\ submitted' = submitted + 1
  /\ task' = [task EXCEPT ![submitted + 1] = "queued"]
  /\ IF submitted + 1 = N
       THEN /\ pc' = "collect"
            /\ results' = [i \in Pos |-> None]
       ELSE UNCHANGED << pc, results >>
  /\ UNCHANGED << static, config, sent, max_workers, batch_prompts, failing, gen, k, executor,
                  pool_size, future, collected, yielded, error, issued,
                  request, response, pool_used, pending_at_failure,
                  reordered >>

\* A pool thread takes the oldest queued call and starts it: the remote
\* request goes out.  At most pool_size threads exist.
WorkerStart(i) ==
  /\ executor
  /\ i \in Queued
  /\ \A j \in Queued : i <= j
  /\ Cardinality(Running) < pool_size
  /\ task' = [task EXCEPT ![i] = "running"]
  /\ issued' = [issued EXCEPT ![i] = @ + 1]
  /\ request' = [request EXCEPT ![i] = batch_prompts[i]]
  /\ sent' = [sent EXCEPT ![i] = CallArgs(model_id, format_type, temperature,
                                          batch_prompts[i], config)]
  /\ UNCHANGED << static, config, max_workers, batch_prompts, failing, gen, pc, k, executor,
                  pool_size, submitted, future, collected, results, yielded,
                  error, response, pool_used, pending_at_failure,
                  reordered >>

\* The remote call of a pool thread returns or raises; the future is set.
WorkerFinish(i) ==
  /\ executor
  /\ i \in Running
  /\ i \notin hanging
  /\ LET o == ProcessSinglePrompt(request[i], i)
     IN  /\ future' = [future EXCEPT ![i] = o]
         /\ task' = [task EXCEPT ![i] = TaskAfterCall(o)]
  /\ response' = [response EXCEPT ![i] = RemoteCall(request[i], i)]
  /\ UNCHANGED << static, config, sent, max_workers, batch_prompts, failing, gen, pc, k, executor,
                  pool_size, submitted, collected, results, yielded, error,
                  issued, request, pool_used, pending_at_failure,
                  reordered >>

\* Faulty variant: the loop over results starts as soon as the first slot is
\* filled.
CollectStartingEarly(i) ==
  /\ gen = "running" /\ pc = "collect"
  /\ i \in Finished \ collected
  /\ collected' = collected \cup {i}
  /\ reordered' = (reordered \/ \E j \in Pos \ collected : j < i)
  /\ IF future[i].ok
       THEN /\ results' = StoreResult(results, i, future[i].val)
            /\ IF 1 \in collected' 
                 THEN pc' = "yield" /\ k' = 1
                 ELSE UNCHANGED << pc, k >>
            /\ UNCHANGED << error, pending_at_failure >>
       ELSE /\ error' = InferenceRuntimeError(future[i].val)
            /\ pc' = "unwind"
            /\ pending_at_failure' = Queued
            /\ UNCHANGED << results, k >>
  /\ UNCHANGED << static, config, sent, max_workers, batch_prompts, failing, gen, executor,
                  pool_size, submitted, task, future, yielded, issued, request,
                  response, pool_used >>

\* One iteration of: for future in as_completed(future_to_index).
\* as_completed hands over any finished future not handed over before;
\* future.result() returns the value or re-raises the exception of the call,
\* which is wrapped once more and raised.  When all futures are handed over the
\* loop over results starts.
Collect(i) ==
  /\ gen = "running" /\ pc = "collect"
  /\ i \in Finished \ collected
  /\ collected' = collected \cup {i}
  /\ reordered' = (reordered \/ \E j \in Pos \ collected : j < i)
  /\ IF future[i].ok
       THEN /\ results' = StoreResult(results, i, future[i].val)
            /\ IF collected' = Pos
                 THEN pc' = "yield" /\ k' = 1
                 ELSE UNCHANGED << pc, k >>
            /\ UNCHANGED << error, pending_at_failure >>
       ELSE /\ error' = InferenceRuntimeError(future[i].val)
            /\ pc' = "unwind"
            /\ pending_at_failure' = Queued
            /\ UNCHANGED << results, k >>
  /\ UNCHANGED << static, config, sent, max_workers, batch_prompts, failing, gen, executor,
                  pool_size, submitted, task, future, yielded, issued, request,
                  response, pool_used >>

\* The exception leaves the with-block: ThreadPoolExecutor.__exit__ waits for
\* the pool, then the exception reaches the caller of next().
ExitRaise ==
  /\ gen = "running" /\ pc = "unwind"
  /\ ShutdownMayReturn(task)
  /\ gen' = "raised"
  /\ pc' = "end"
  /\ executor' = FALSE
  /\ UNCHANGED << static, config, sent, max_workers, batch_prompts, failing, k, pool_size, submitted,
                  task, future, collected, results, yielded, error, issued,
                  request, response, pool_used, pending_at_failure,
                  reordered >>

\* One iteration of: for result in results, up to its yield; or the end of the
\* loop, where the with-block is left and the generator is exhausted.
ParLoop ==
  /\ gen = "running" /\ pc = "yield"
  /\ IF LoopDone(k, N)
       THEN /\ ShutdownMayReturn(task)
            /\ gen' = "exhausted"
            /\ pc' = "end"
            /\ executor' = FALSE
            /\ UNCHANGED << yielded, error >>
       ELSE IF IsMissing(results[k])
         THEN /\ error' = InferenceRuntimeError(None)
              /\ pc' = "unwind"
              /\ UNCHANGED << gen, executor, yielded >>
         ELSE /\ yielded' = Append(yielded, ResultGroup(results[k]))
              /\ gen' = "suspended"
              /\ UNCHANGED << pc, executor, error >>
  /\ UNCHANGED << static, config, sent, max_workers, batch_prompts, failing, k, pool_size, submitted,
                  task, future, collected, results, issued, request, response,
                  pool_used, pending_at_failure,
                  reordered >>

-----------------------------------------------------------------------------
(* Sequential branch *)

\* for prompt in batch_prompts: the call of _process_single_prompt starts (the
\* remote request goes out), or the loop ends and the generator is exhausted.
SeqLoop ==
  /\ gen = "running" /\ pc = "seq"
  /\ IF LoopDone(k, N)
       THEN /\ gen' = "exhausted"
            /\ pc' = "end"
            /\ UNCHANGED << task, issued, request, sent >>
       ELSE /\ task[k] = "new"
            /\ task' = [task EXCEPT ![k] = "running"]
            /\ issued' = [issued EXCEPT ![k] = @ + 1]
            /\ request' = [request EXCEPT ![k] = batch_prompts[k]]
            /\ sent' = [sent EXCEPT ![k] = CallArgs(model_id, format_type,
                                                    temperature,
                                                    batch_prompts[k], config)]
            /\ pc' = "call"
            /\ UNCHANGED gen
  /\ UNCHANGED << static, config, max_workers, batch_prompts, failing, k,
                  executor, pool_size, submitted, future, collected, results,
                  yielded, error, response, pool_used, pending_at_failure,
                  reordered >>

\* Faulty variant: a call that raises is passed over and the loop goes on with
\* the next prompt.
SeqReturnSkippingFailure ==
  /\ gen = "running" /\ pc = "call"
  /\ k \notin hanging
  /\ LET o == ProcessSinglePrompt(request[k], k)
     IN  /\ task' = [task EXCEPT ![k] = TaskAfterCall(o)]
         /\ IF o.ok
              THEN /\ yielded' = Append(yielded, ResultGroup(o.val))
                   /\ gen' = "suspended"
                   /\ UNCHANGED << error, k >>
              ELSE /\ error' = o.val
                   /\ k' = k + 1
                   /\ UNCHANGED << yielded, gen >>
  /\ pc' = "seq"
  /\ response' = [response EXCEPT ![k] = RemoteCall(request[k], k)]
  /\ UNCHANGED << static, config, sent, max_workers, batch_prompts, failing,
                  executor, pool_size, submitted, future, collected, results,
                  issued, request, pool_used, pending_at_failure, reordered >>

\* The call returns and its result is yielded, or it raises and the exception
\* leaves the generator.
SeqReturn ==
  /\ gen = "running" /\ pc = "call"
  /\ k \notin hanging
  /\ LET o == ProcessSinglePrompt(request[k], k)
     IN  /\ task' = [task EXCEPT ![k] = TaskAfterCall(o)]
         /\ IF o.ok
              THEN /\ yielded' = Append(yielded, ResultGroup(o.val))
                   /\ gen' = "suspended"
                   /\ pc' = "seq"
                   /\ UNCHANGED error
              ELSE /\ error' = o.val
                   /\ gen' = "raised"
                   /\ pc' = "end"
                   /\ UNCHANGED yielded
  /\ response' = [response EXCEPT ![k] = RemoteCall(request[k], k)]
  /\ UNCHANGED << static, config, sent, max_workers, batch_prompts, failing, k, executor, pool_size,
                  submitted, future, collected, results, issued, request,
                  pool_used, pending_at_failure,
                  reordered >>

-----------------------------------------------------------------------------

Next ==
  \/ \E key \in ApiKeys, fmt \in FormatTypes, temp \in Temperatures,
        workers \in 0..MaxWorkers, extra \in ExtraOptions :
       Construct("claude-3-5-sonnet-latest", key, "None", fmt, temp, workers,
                 extra)
  \/ /\ inst = "ready" /\ gen = "none" /\ env_api_key = "None"
     /\ \E batch \in SeqUpTo(Prompts, MaxBatch) :
          \E f \in SUBSET (1..Len(batch)) :
            \E h \in SUBSET ((1..Len(batch)) \ f) :
              \E kw \in KwargsSet : Infer(batch, f, h, kw)
  \/ Discard
  \/ NextFirst
  \/ NextResume
  \/ Close
  \/ Submit
  \/ \E i \in Pos : WorkerStart(i)
  \/ \E i \in Pos : WorkerFinish(i)
  \/ \E i \in Pos : Collect(i)
  \/ ExitRaise
  \/ ParLoop
  \/ SeqLoop
  \/ SeqReturn

Spec == Init /\ [][Next]_vars

-----------------------------------------------------------------------------
(* The loop over results on its own.  In Spec every slot of results is      *)
(* filled when the loop starts, so the test for an unfilled slot never      *)
(* succeeds there; here the loop is started on every content of results,    *)
(* each slot either filled with the output of its prompt or left None.      *)

InitMissingSlot ==
  /\ dependency = TRUE
  /\ env_api_key = "None"
  /\ inst = "ready"
  /\ config_error = "None"
  /\ api_key_arg = "sk-key"
  /\ client_sets = 1
  /\ model_id = "claude-3-5-sonnet-latest"
  /\ api_key = "sk-key"
  /\ base_url = "None"
  /\ format_type = "JSON"
  /\ temperature = "0.0"
  /\ client = Client("sk-key", "None")
  /\ max_workers \in 2..MaxWorkers
  /\ init_args = Args(model_id, api_key, base_url, format_type, temperature,
                      max_workers, EmptyDict)
  /\ extra_kwargs = EmptyDict
  /\ kwargs = EmptyDict
  /\ hanging = {}
  /\ config = BuildConfig(EmptyDict, "0.0")
  /\ entries = InitialEntries(10)
  /\ register_error = "None"
  /\ resolved = NotResolved
  /\ register_patterns = GrokEntry(10).patterns
  /\ seen = {}
  /\ listed = << >>
  /\ batch_prompts \in { b \in SeqUpTo(Prompts, MaxBatch) : Len(b) > 1 }
  /\ failing = {}
  /\ gen = "running"
  /\ pc = "yield"
  /\ k = 1
  /\ executor = TRUE
  /\ pool_size = PoolSize(N, max_workers)
  /\ submitted = N
  /\ task = [i \in Pos |-> "ok"]
  /\ future = [i \in Pos |-> ProcessSinglePrompt(batch_prompts[i], i)]
  /\ collected = Pos
  /\ \E filled \in SUBSET Pos :
       results = [i \in Pos |-> IF i \in filled THEN future[i].val ELSE None]
  /\ yielded = << >>
  /\ error = None
  /\ issued = [i \in Pos |-> 1]
  /\ request = batch_prompts
  /\ response = [i \in Pos |-> RemoteCall(batch_prompts[i], i)]
  /\ sent = [i \in Pos |-> CallArgs(model_id, format_type, temperature,
                                     batch_prompts[i], config)]
  /\ pool_used = TRUE
  /\ pending_at_failure = {}
  /\ reordered = FALSE

NextMissingSlot ==
  \/ ParLoop
  \/ NextResume
  \/ ExitRaise
  \/ Close

SpecMissingSlot == InitMissingSlot /\ [][NextMissingSlot]_vars

-----------------------------------------------------------------------------
(* Termination.  A built instance with the default settings; every remote   *)
(* call returns or raises, the caller keeps calling next() until the        *)
(* generator ends, and every thread that can take a step takes it in the    *)
(* end.                                                                     *)

InitLive ==
  /\ dependency = TRUE
  /\ env_api_key = "None"
  /\ inst = "ready"
  /\ config_error = "None"
  /\ api_key_arg = "sk-key"
  /\ client_sets = 1
  /\ model_id = "claude-3-5-sonnet-latest"
  /\ api_key = "sk-key"
  /\ base_url = "None"
  /\ format_type = "JSON"
  /\ temperature = "0.0"
  /\ client = Client("sk-key", "None")
  /\ max_workers \in 0..MaxWorkers
  /\ init_args = Args(model_id, api_key, base_url, format_type, temperature,
                      max_workers, EmptyDict)
  /\ extra_kwargs = EmptyDict
  /\ kwargs = EmptyDict
  /\ hanging = {}
  /\ config = EmptyDict
  /\ sent = << >>
  /\ entries = InitialEntries(10)
  /\ register_error = "None"
  /\ resolved = NotResolved
  /\ register_patterns = GrokEntry(10).patterns
  /\ seen = {}
  /\ listed = << >>
  /\ batch_prompts = << >>
  /\ failing = {}
  /\ gen = "none"
  /\ pc = "end"
  /\ k = 0
  /\ executor = FALSE
  /\ pool_size = 0
  /\ submitted = 0
  /\ task = << >>
  /\ future = << >>
  /\ collected = {}
  /\ results = << >>
  /\ yielded = << >>
  /\ error = None
  /\ issued = << >>
  /\ request = << >>
  /\ response = << >>
  /\ pool_used = FALSE
  /\ pending_at_failure = {}
  /\ reordered = FALSE

\* The caller never closes the generator early and no call hangs.
NextLive ==
  \/ /\ gen = "none"
     /\ \E batch \in SeqUpTo(Prompts, MaxBatch) :
          \E f \in SUBSET (1..Len(batch)) : Infer(batch, f, {}, EmptyDict)
  \/ Discard
  \/ NextFirst
  \/ NextResume
  \/ Submit
  \/ \E i \in Pos : WorkerStart(i)
  \/ \E i \in Pos : WorkerFinish(i)
  \/ \E i \in Pos : Collect(i)
  \/ ExitRaise
  \/ ParLoop
  \/ SeqLoop
  \/ SeqReturn

\* The caller consumes the generator, the generator's thread runs, each pool
\* thread runs, each remote call ends.
Fairness ==
  /\ WF_vars(NextFirst)
  /\ WF_vars(NextResume)
  /\ WF_vars(Submit)
  /\ WF_vars(\E i \in 1..MaxBatch : Collect(i))
  /\ WF_vars(ExitRaise)
  /\ WF_vars(ParLoop)
  /\ WF_vars(SeqLoop)
  /\ WF_vars(SeqReturn)
  /\ \A i \in 1..MaxBatch : WF_vars(WorkerStart(i))
  /\ \A i \in 1..MaxBatch : WF_vars(WorkerFinish(i))

SpecLive == InitLive /\ [][NextLive]_vars /\ Fairness

-----------------------------------------------------------------------------
(* The registry on its own: registrations and resolutions after the         *)
(* built-in entries are in place.                                           *)

provider == << instance, environment, construction, call_inputs, config, sent,
               max_workers, batch_prompts, failing, gen, pc, k, executor,
               pool_size, submitted, task, future, collected, results, yielded,
               error, issued, request, response, pool_used, pending_at_failure,
               reordered >>

\* list_entries(): the (patterns, priority) pairs in registration order.
Snapshot(es) ==
  [i \in DOMAIN es |-> [patterns |-> es[i].patterns, priority |-> es[i].priority]]

\* Faulty variant: an empty pattern set is registered like any other.
RegisterAcceptingEmpty(patterns, priority, constructor) ==
  /\ Len(entries) < Len(InitialEntries(10)) + MaxEntries
  /\ register_patterns' = patterns
  /\ register_error' = "None"
  /\ entries' = Append(entries, [ patterns |-> patterns,
                                  priority |-> priority,
                                  constructor |-> constructor ])
  /\ resolved' = NotResolved
  /\ seen' = {}
  /\ UNCHANGED << listed, provider >>

\* Faulty variant: the registry keeps one entry per priority, so a registration
\* takes the place of the entries of its priority.
RegisterReplacing(patterns, priority, constructor) ==
  /\ Len(entries) < Len(InitialEntries(10)) + MaxEntries
  /\ register_patterns' = patterns
  /\ IF patterns = {}
       THEN /\ register_error' = "ConfigurationError"
            /\ UNCHANGED entries
       ELSE /\ register_error' = "None"
            /\ entries' = Append(SelectSeq(entries,
                                           LAMBDA e : e.priority # priority),
                                 [ patterns |-> patterns,
                                   priority |-> priority,
                                   constructor |-> constructor ])
  /\ resolved' = NotResolved
  /\ seen' = {}
  /\ UNCHANGED << listed, provider >>

\* register(patterns, priority) applied to a constructor: ConfigurationError
\* for an empty pattern set, else the entry is added after the others.
Register(patterns, priority, constructor) ==
  /\ Len(entries) < Len(InitialEntries(10)) + MaxEntries
  /\ register_patterns' = patterns
  /\ IF patterns = {}
       THEN /\ register_error' = "ConfigurationError"
            /\ UNCHANGED entries
       ELSE /\ register_error' = "None"
            /\ entries' = Append(entries, [ patterns |-> patterns,
                                            priority |-> priority,
                                            constructor |-> constructor ])
  /\ resolved' = NotResolved
  /\ seen' = {}
  /\ UNCHANGED << listed, provider >>

\* Faulty variant: the entry that answered is moved to the end of the registry,
\* where it is found first the next time.
ResolveCallPromoting(id) ==
  /\ resolved' = Resolve(entries, id)
  /\ seen' = seen \cup { Resolve(entries, id) }
  /\ LET m == Matching(entries, id)
     IN  IF m = {}
           THEN UNCHANGED entries
           ELSE LET best == CHOOSE i \in m : \A j \in m :
                              \/ entries[j].priority < entries[i].priority
                              \/ entries[j].priority = entries[i].priority /\ j <= i
                IN  entries' = Append([ n \in 1..(Len(entries) - 1) |->
                                          IF n < best THEN entries[n]
                                                      ELSE entries[n + 1] ],
                                      entries[best])
  /\ UNCHANGED << register_error, register_patterns, listed, provider >>

\* resolve(model_id)
ResolveCall(id) ==
  /\ resolved' = Resolve(entries, id)
  /\ seen' = seen \cup { Resolve(entries, id) }
  /\ UNCHANGED << entries, register_error, register_patterns, listed, provider >>

\* list_entries()
ListEntries ==
  /\ listed' = Snapshot(entries)
  /\ UNCHANGED << entries, register_error, resolved, register_patterns, seen,
                  provider >>

\* The library has been imported, with the third backend registered at either
\* priority; the provider side is at rest.
InitRegistry ==
  /\ dependency = TRUE
  /\ env_api_key = "None"
  /\ inst = "unbuilt"
  /\ config_error = "None"
  /\ api_key_arg = "None"
  /\ client_sets = 0
  /\ init_args = NoArgs
  /\ extra_kwargs = EmptyDict
  /\ model_id = "claude-3-5-sonnet-latest"
  /\ api_key = "None"
  /\ base_url = "None"
  /\ format_type = "JSON"
  /\ temperature = "0.0"
  /\ client = None
  /\ max_workers = DefaultMaxWorkers
  /\ kwargs = EmptyDict
  /\ hanging = {}
  /\ config = EmptyDict
  /\ sent = << >>
  /\ batch_prompts = << >>
  /\ failing = {}
  /\ gen = "none"
  /\ pc = "end"
  /\ k = 0
  /\ executor = FALSE
  /\ pool_size = 0
  /\ submitted = 0
  /\ task = << >>
  /\ future = << >>
  /\ collected = {}
  /\ results = << >>
  /\ yielded = << >>
  /\ error = None
  /\ issued = << >>
  /\ request = << >>
  /\ response = << >>
  /\ pool_used = FALSE
  /\ pending_at_failure = {}
  /\ reordered = FALSE
  /\ \E grok_priority \in Priorities :
       /\ entries = InitialEntries(grok_priority)
       /\ register_patterns = GrokEntry(grok_priority).patterns
  /\ register_error = "None"
  /\ resolved = NotResolved
  /\ seen = {}
  /\ listed = << >>

NextRegistry ==
  \/ \E patterns \in SUBSET ExtraPatterns, priority \in Priorities,
        constructor \in Constructors :
       Register(patterns, priority, constructor)
  \/ \E id \in ModelIds : ResolveCall(id)
  \/ ListEntries

SpecRegistry == InitRegistry /\ [][NextRegistry]_vars

-----------------------------------------------------------------------------
(* Properties *)

\* C1: in parallel mode the i-th result group the caller receives holds the
\* output of the remote call made for the i-th prompt of the batch, whatever the
\* order in which the workers completed.
C1_OutputOrderIsInputOrder ==
  pool_used =>
    \A g \in 1..Len(yielded) :
      /\ g <= N
      /\ request[g] = batch_prompts[g]
      /\ response[g] # None
      /\ response[g].ok
      /\ yielded[g] = << ScoredOutput(response[g].val) >>

\* Two different prompts at positions 1 and 2, futures collected out of
\* position order, and both groups yielded.
C1_Witness ==
  /\ pool_used
  /\ N >= 2
  /\ batch_prompts[1] # batch_prompts[2]
  /\ reordered
  /\ Len(yielded) >= 2

\* C2: as the specification states it, with N > 1 prompts of which exactly one
\* fails, for any max_workers, infer raises InferenceRuntimeError and has handed
\* no result group to the caller.  The sequential branch refutes it.
C2_NoPartialResults ==
  (N > 1 /\ Cardinality(failing) = 1 /\ gen = "raised") =>
    /\ error.type = "InferenceRuntimeError"
    /\ yielded = << >>

\* C3: when no remote call fails, at most N groups are ever yielded, a fully
\* consumed call has yielded exactly N, and every group holds exactly one
\* Scored Output.
C3_OneGroupPerPrompt ==
  (gen # "none" /\ Failed = {}) =>
    /\ Len(yielded) <= N
    /\ gen = "exhausted" => Len(yielded) = N
    /\ \A g \in 1..Len(yielded) :
         /\ Len(yielded[g]) = 1
         /\ DOMAIN yielded[g][1] = {"score", "output"}

C3_Witness ==
  /\ gen = "exhausted"
  /\ N >= 2
  /\ Len(yielded) = N

\* C4: once a remote call has raised, infer does not end otherwise than by
\* raising InferenceRuntimeError, and no group is yielded for the failed prompt.
C4_FailureRaisesInferenceRuntimeError ==
  /\ Failed # {} =>
       /\ gen \in {"running", "raised"}
       /\ \A i \in Failed : Len(yielded) < i
  /\ gen = "raised" =>
       /\ Failed # {}
       /\ error.type = "InferenceRuntimeError"

\* The sequential path raised after a first prompt had succeeded.
C4_Witness ==
  /\ gen = "raised"
  /\ ~ pool_used
  /\ Failed # {}
  /\ Len(yielded) >= 1

\* C5: as the specification states it, the error infer raises carries the
\* exception of the remote call as its original error, in both paths.  The
\* parallel branch, which wraps twice, refutes it.
C5_OriginalIsBackendException ==
  gen = "raised" => error.original \in { BackendError(i) : i \in Failed }

\* C6: no position's remote call is issued more than once.
C6_AtMostOneCallPerPrompt ==
  \A i \in Pos : issued[i] <= 1

\* A call has failed, infer has raised, and the failed call was made once.
C6_Witness ==
  /\ gen = "raised"
  /\ \E i \in Failed : issued[i] = 1
  /\ \E i \in Pos : issued[i] = 1 /\ task[i] = "ok"

\* C7: the pool is used exactly when batch size > 1 and max_workers > 1; without
\* it at most one call is in flight and the call for prompt i+1 has started only
\* if the call for prompt i has returned.
C7_PoolIffBatchAndWorkers ==
  (gen # "none" /\ pc # "start") =>
    /\ pool_used <=> (Len(batch_prompts) > 1 /\ max_workers > 1)
    /\ ~ pool_used =>
         /\ Cardinality(Running) <= 1
         /\ Queued = {}
         /\ \A i \in Pos : (i > 1 /\ task[i] # "new") => task[i - 1] = "ok"

\* Several prompts with a single worker: the second call is in flight.
C7_Witness ==
  /\ ~ pool_used
  /\ N >= 2
  /\ max_workers <= 1
  /\ task[2] = "running"

\* C8: in parallel mode the calls in flight never outnumber
\* min(max_workers, batch size).
C8_InFlightBounded ==
  pool_used =>
    /\ Cardinality(Running) <= max_workers
    /\ Cardinality(Running) <= Len(batch_prompts)

\* The bound is reached while a prompt is still queued.
C8_Witness ==
  /\ pool_used
  /\ Cardinality(Running) = max_workers
  /\ Queued # {}

\* C9: as the specification states it, once a failure has been observed during
\* collection, the raise reaches the caller without waiting for outstanding
\* workers.  Leaving the with-block waits for them, which refutes it.
C9_RaisesWithoutWaiting ==
  pc = "unwind" => ENABLED ExitRaise

\* C10: in parallel mode a failure cancels nothing: when infer has raised, every
\* prompt of the batch has had its remote call issued and finished, also those
\* still queued when the failure was observed.
C10_NoCancellation ==
  (pool_used /\ gen = "raised") =>
    \A i \in Pos :
      /\ task[i] \in {"ok", "fail"}
      /\ issued[i] = 1
      /\ response[i] # None

\* infer has raised, and a prompt was still queued when the raise started.
C10_Witness ==
  /\ pool_used
  /\ gen = "raised"
  /\ pending_at_failure # {}
  /\ \A i \in pending_at_failure : task[i] \in {"ok", "fail"}

\* C11: with the deterministic backend and no failure, a fully consumed infer
\* call yields the sequence the sequential loop produces for the batch, whatever
\* max_workers is; so max_workers = 1 and max_workers > 1 give the same outputs.
C11_ParallelEqualsSequential ==
  (gen = "exhausted" /\ failing = {}) =>
    yielded = SequentialRun(batch_prompts, 1)

\* A pool run over different prompts, collected out of order, fully consumed.
C11_Witness ==
  /\ gen = "exhausted"
  /\ pool_used
  /\ reordered
  /\ \E i, j \in Pos : batch_prompts[i] # batch_prompts[j]

\* C13: construction with no credential (None or the empty string) fails with a
\* configuration error; the client handle is never created and no remote call is
\* ever made.
C13_NoCredentialNoClient ==
  (inst # "unbuilt" /\ api_key_arg \in {"None", ""}) =>
    /\ inst = "failed"
    /\ config_error # "None"
    /\ client = None
    /\ client_sets = 0
    /\ gen = "none"
    /\ sent = << >>
    /\ issued = << >>

\* The package is there, the key is the empty string, construction has failed.
C13_Witness ==
  /\ inst = "failed"
  /\ dependency
  /\ api_key_arg = ""
  /\ config_error = "API key not provided for Anthropic."

\* C14: as the specification states it, construction without a credential
\* argument succeeds and uses the credential of the environment when there is
\* one.  __init__ never reads the environment, which refutes it.
C14_EnvironmentCredentialUsed ==
  (inst # "unbuilt" /\ dependency /\ api_key_arg = "None"
     /\ env_api_key # "None") =>
    /\ inst = "ready"
    /\ api_key = env_api_key

\* C15: every remote call of a batch is sent the temperature given to infer
\* when there is one and the temperature of the instance otherwise, and all
\* calls of the batch are sent the same temperature, max_tokens and top_p.
C15_EffectiveTemperature ==
  \A i \in DOMAIN sent :
    sent[i] # NoCall =>
      /\ sent[i].temperature =
           (IF "temperature" \in DOMAIN kwargs THEN kwargs["temperature"]
                                              ELSE temperature)
      /\ \A j \in DOMAIN sent :
           sent[j] # NoCall =>
             /\ sent[j].temperature = sent[i].temperature
             /\ sent[j].max_tokens = sent[i].max_tokens
             /\ sent[j].top_p = sent[i].top_p

\* Two calls sent with an override that differs from the instance's value.
C15_Witness ==
  /\ "temperature" \in DOMAIN kwargs
  /\ temperature = "0.7"
  /\ N >= 2
  /\ \A i \in Pos : sent[i] # NoCall /\ sent[i].temperature = "0.3"

\* C16: when infer is given no top_p, or top_p None, every remote call of the
\* batch is sent top_p None; no default value is put in its place.
C16_TopPUnset ==
  ("top_p" \notin DOMAIN kwargs \/ kwargs["top_p"] = "None") =>
    \A i \in DOMAIN sent : sent[i] # NoCall => sent[i].top_p = "None"

\* A call was sent while infer had no top_p among its keyword arguments.
C16_Witness ==
  /\ "top_p" \notin DOMAIN kwargs
  /\ "temperature" \in DOMAIN kwargs
  /\ \E i \in Pos : sent[i] # NoCall /\ sent[i].top_p = "None"

\* C17: every Scored Output yielded has score 1.0, in both branches.
C17_ScoreIsOne ==
  \A g \in 1..Len(yielded) :
    \A e \in 1..Len(yielded[g]) : yielded[g][e].score = 1

\* Groups have been yielded by the pool branch.
C17_Witness ==
  /\ pool_used
  /\ gen = "suspended"
  /\ Len(yielded) = N
  /\ \A g \in 1..Len(yielded) : yielded[g][1].score = 1

\* C18: once the instance is built no step changes model_id, api_key, base_url,
\* format_type, temperature, max_workers or the client handle, and the client
\* handle is assigned exactly once, in the constructor.
C18_InstanceUnchanged ==
  /\ [](client_sets <= 1 /\ (inst = "ready" <=> client_sets = 1))
  /\ [][inst = "ready" =>
          /\ UNCHANGED << instance, max_workers >>
          /\ client_sets' = client_sets]_vars

\* An infer call with a temperature override has ended on a built instance.
C18_Witness ==
  /\ inst = "ready"
  /\ gen \in {"exhausted", "raised"}
  /\ "temperature" \in DOMAIN kwargs
  /\ kwargs["temperature"] # temperature
  /\ client = Client(api_key, base_url)

\* C19: a remote call that never returns stays in flight, and the infer call
\* it belongs to is never exhausted, raised or closed, also after another prompt
\* of the batch has failed.
C19_HungCallBlocksInfer ==
  \A i \in hanging :
    issued[i] > 0 =>
      /\ task[i] = "running"
      /\ gen = "running"

\* A failure has been observed while a hung call occupies a worker.
C19_Witness ==
  /\ pool_used
  /\ pc = "unwind"
  /\ Failed # {}
  /\ \E i \in hanging : task[i] = "running"

\* C12: the loop over results never yields an unfilled slot and skips none: the
\* g-th group yielded is slot g, which is filled; the loop runs to its end only
\* when every slot is filled, and at the first unfilled slot it raises
\* InferenceRuntimeError.
C12_NoGapYielded ==
  /\ \A g \in 1..Len(yielded) :
       /\ g <= N
       /\ results[g] # None
       /\ yielded[g] = << results[g] >>
  /\ gen = "exhausted" => \A i \in Pos : results[i] # None
  /\ gen = "raised" =>
       /\ error.type = "InferenceRuntimeError"
       /\ \E i \in Pos : results[i] = None /\ Len(yielded) < i

\* The first slot was yielded, the second is unfilled, the call has raised.
C12_Witness ==
  /\ gen = "raised"
  /\ results[1] # None
  /\ results[2] = None
  /\ Len(yielded) = 1

\* C20: resolve returns the constructor of a matching entry whose priority no
\* other matching entry exceeds, whatever the patterns: a broad pattern of
\* higher priority beats a narrow one of lower priority and the reverse.
C20_HighestPriorityWins ==
  resolved.ok =>
    \E i \in Matching(entries, resolved.model_id) :
      /\ entries[i].constructor = resolved.val
      /\ \A j \in Matching(entries, resolved.model_id) :
           entries[j].priority <= entries[i].priority

\* P1 registered for '^foo-' at priority 5, P2 for '^foo-bar' at priority 10,
\* and 'foo-bar-1' resolved to P2.
C20_Witness ==
  /\ \E i \in DOMAIN entries :
       entries[i] = [ patterns |-> { Pattern("^foo-", << "foo", "-" >>) },
                      priority |-> 5, constructor |-> "P1" ]
  /\ \E j \in DOMAIN entries :
       entries[j] = [ patterns |-> { Pattern("^foo-bar", << "foo", "-", "bar" >>) },
                      priority |-> 10, constructor |-> "P2" ]
  /\ resolved = [ model_id |-> << "foo", "-", "bar", "-", "1" >>,
                  ok |-> TRUE, val |-> "P2" ]

\* C21: when entries of equal priority match the id and none of higher priority
\* does, resolve returns the constructor of the one registered last among them,
\* in whichever order the entries were registered.
C21_LaterRegistrationWinsTie ==
  resolved.ok =>
    LET m == Matching(entries, resolved.model_id)
        top == { i \in m : \A j \in m : entries[j].priority <= entries[i].priority }
    IN  \E i \in top :
          /\ \A j \in top : j <= i
          /\ entries[i].constructor = resolved.val

\* P2 then P1 registered for '^foo-' at priority 5; 'foo-baz' resolved to P1.
C21_Witness ==
  /\ Len(entries) = Len(InitialEntries(10)) + 2
  /\ entries[Len(entries) - 1] =
       [ patterns |-> { Pattern("^foo-", << "foo", "-" >>) },
         priority |-> 5, constructor |-> "P2" ]
  /\ entries[Len(entries)] =
       [ patterns |-> { Pattern("^foo-", << "foo", "-" >>) },
         priority |-> 5, constructor |-> "P1" ]
  /\ resolved = [ model_id |-> << "foo", "-", "baz" >>, ok |-> TRUE, val |-> "P1" ]

\* C22: a resolve call ends in NoProviderError exactly when no entry has a
\* pattern matching the id, and a resolve call that ends so changes nothing of
\* the registry.
C22_NoProviderErrorIffNoMatch ==
  /\ [](resolved # NotResolved =>
          /\ (resolved.val = "NoProviderError")
               <=> (Matching(entries, resolved.model_id) = {})
          /\ resolved.ok <=> (resolved.val # "NoProviderError"))
  /\ [][(resolved'.val = "NoProviderError" /\ resolved' # resolved) =>
          UNCHANGED << entries, register_error, register_patterns, listed >>]_vars

\* 'unknown-model-xyz' resolved after registrations, ending in NoProviderError.
C22_Witness ==
  /\ Len(entries) > Len(InitialEntries(10))
  /\ resolved = [ model_id |-> << "unknown", "-", "model", "-", "xyz" >>,
                  ok |-> FALSE, val |-> "NoProviderError" ]

\* C23: a register call given the empty pattern set ends in ConfigurationError
\* and leaves the entries as they were; no entry has an empty pattern set.
C23_EmptyPatternsRejected ==
  /\ [](register_patterns = {} => register_error = "ConfigurationError")
  /\ [](\A i \in DOMAIN entries : entries[i].patterns # {})
  /\ [][register_patterns' = {} => entries' = entries]_vars

\* A register call with no pattern has failed after one that succeeded.
C23_Witness ==
  /\ register_patterns = {}
  /\ register_error = "ConfigurationError"
  /\ Len(entries) = Len(InitialEntries(10)) + 1

\* C24: between two registrations every resolve call of an id has the same
\* outcome, whatever resolve and list_entries calls come in between; no step
\* alters, moves or removes a registered entry, resolve and list_entries steps
\* leave the registry as it is, and list_entries returns the entries as they
\* are.
C24_ResolveDeterministicReadOnly ==
  /\ [](\A a, b \in seen : a.model_id = b.model_id => a = b)
  /\ [][\A i \in DOMAIN entries :
          i \in DOMAIN entries' /\ entries'[i] = entries[i]]_vars
  /\ [][(\/ resolved' # NotResolved /\ (resolved' # resolved \/ seen' # seen)
         \/ listed' # listed) =>
          UNCHANGED << entries, register_error, register_patterns >>]_vars
  /\ [][listed' # listed => listed' = Snapshot(entries)]_vars

\* The same id resolved again after other ids and a list_entries call.
C24_Witness ==
  /\ Len(entries) = Len(InitialEntries(10)) + 2
  /\ listed = Snapshot(entries)
  /\ Cardinality(seen) = Cardinality(ModelIds)
  /\ resolved.ok
  /\ resolved.val \in Constructors

C26_ExtraOptionsIgnored ==
  (inst # "unbuilt" /\ dependency /\ ~ NoCredential(init_args.api_key)) =>
    /\ inst = "ready"
    /\ model_id = init_args.model_id
    /\ api_key = init_args.api_key
    /\ base_url = init_args.base_url
    /\ format_type = init_args.format_type
    /\ temperature = init_args.temperature
    /\ max_workers = init_args.max_workers
    /\ client = Client(init_args.api_key, init_args.base_url)
    /\ \A i \in DOMAIN sent :
         sent[i] # NoCall =>
           /\ sent[i].model = init_args.model_id
           /\ sent[i].messages = Messages(init_args.format_type, batch_prompts[i])
           /\ sent[i].temperature =
                (IF "temperature" \in DOMAIN kwargs THEN kwargs["temperature"]
                                                   ELSE init_args.temperature)
           /\ sent[i].max_tokens =
                (IF "max_output_tokens" \in DOMAIN kwargs
                   THEN kwargs["max_output_tokens"] ELSE "4096")
           /\ sent[i].top_p =
                (IF "top_p" \in DOMAIN kwargs THEN kwargs["top_p"] ELSE "None")

\* Built with extra options top_p and max_output_tokens; a call was sent by an
\* infer call given neither.
C26_Witness ==
  /\ inst = "ready"
  /\ init_args.kwargs # EmptyDict
  /\ "top_p" \in DOMAIN init_args.kwargs
  /\ kwargs = EmptyDict
  /\ \E i \in DOMAIN sent :
       sent[i] # NoCall /\ sent[i].top_p = "None" /\ sent[i].max_tokens = "4096"

\* C27: when the client package cannot be imported construction fails with the
\* missing-package error whatever the credential argument is; every field keeps
\* its class default and no client is created.
C27_MissingDependencyFirst ==
  (inst # "unbuilt" /\ ~ dependency) =>
    /\ inst = "failed"
    /\ config_error = "Anthropic provider requires anthropic package."
    /\ model_id = "claude-3-5-sonnet-latest"
    /\ api_key = "None"
    /\ base_url = "None"
    /\ format_type = "JSON"
    /\ temperature = "0.0"
    /\ max_workers = DefaultMaxWorkers
    /\ extra_kwargs = EmptyDict
    /\ client = None
    /\ client_sets = 0

\* Package missing, construction attempted with a credential and settings that
\* differ from the defaults.
C27_Witness ==
  /\ ~ dependency
  /\ inst = "failed"
  /\ init_args.api_key = "sk-key"
  /\ init_args.temperature = "0.7"
  /\ init_args.format_type = "YAML"

\* C28: as the specification states it, when infer is given no
\* max_output_tokens the Anthropic adapter's remote call carries the max_tokens
\* the Mistral adapter sends for the same call, which is None.  The Anthropic
\* adapter sends 4096, which refutes it.
C28_SameMaxTokensWhenAbsent ==
  \A i \in DOMAIN sent :
    (sent[i] # NoCall /\ "max_output_tokens" \notin DOMAIN kwargs) =>
      sent[i].max_tokens =
        MistralCallArgs(model_id, format_type, temperature, batch_prompts[i],
                        config).max_tokens

\* C29: every infer call whose generator is consumed ends: either exhausted
\* with all N groups yielded and every prompt's call made once, or raised with
\* InferenceRuntimeError and no submitted call left queued or running.
C29_InferTerminates ==
  (gen = "created") ~>
    \/ /\ gen = "exhausted"
       /\ Len(yielded) = N
       /\ \A i \in Pos : issued[i] = 1 /\ task[i] = "ok"
    \/ /\ gen = "raised"
       /\ error.type = "InferenceRuntimeError"
       /\ pool_used => \A i \in Pos : task[i] \in {"ok", "fail"}

\* A pool run has raised after every submitted call ended, one of them failed.
C29_Witness ==
  /\ gen = "raised"
  /\ pool_used
  /\ N = MaxBatch
  /\ Cardinality(Failed) = 1
  /\ \A i \in Pos : task[i] \in {"ok", "fail"}

\* C30: in the pool branch, once a group has been yielded every remote call of
\* the batch has been made once, has returned successfully and has been
\* collected; none is queued or running.
C30_YieldAfterAllComplete ==
  (pool_used /\ Len(yielded) > 0) =>
    \A i \in Pos :
      /\ task[i] = "ok"
      /\ issued[i] = 1
      /\ i \in collected
      /\ results[i] # None

\* The first group is out, after the calls completed out of order.
C30_Witness ==
  /\ pool_used
  /\ gen = "suspended"
  /\ Len(yielded) = 1
  /\ N >= 2
  /\ reordered

\* C31: in the sequential branch the call for prompt i is issued, once, only
\* when the groups of the prompts before it have been yielded; when infer has
\* raised, the error is the one of the first failing prompt, the groups before
\* it have been yielded, and no call was issued for a prompt after it.
C31_SequentialOnDemand ==
  (gen \notin {"none", "created"} /\ pc # "start" /\ ~ pool_used) =>
    /\ \A i \in Pos :
         /\ issued[i] <= 1
         /\ issued[i] = 1 => Len(yielded) >= i - 1
         /\ (\E j \in Pos : j < i /\ task[j] = "fail") => issued[i] = 0
    /\ gen = "raised" =>
         \E m \in failing :
           /\ \A j \in failing : m <= j
           /\ error = ProcessSinglePrompt(batch_prompts[m], m).val
           /\ Len(yielded) = m - 1
           /\ \A i \in Pos : i > m => issued[i] = 0 /\ task[i] = "new"

\* Three prompts, the second and the third fail: one group was yielded, the
\* call of the second raised, none was issued for the third.
C31_Witness ==
  /\ ~ pool_used
  /\ gen = "raised"
  /\ N = 3
  /\ failing = {2, 3}
  /\ Len(yielded) = 1
  /\ issued = << 1, 1, 0 >>

\* C32: an infer call on the empty batch makes no remote call, creates no
\* pool, yields nothing and raises nothing, whatever max_workers is; once its
\* body has run the generator is exhausted.
C32_EmptyBatch ==
  (gen # "none" /\ N = 0) =>
    /\ ~ pool_used
    /\ ~ executor
    /\ pool_size = 0
    /\ submitted = 0
    /\ issued = << >>
    /\ sent = << >>
    /\ yielded = << >>
    /\ error = None
    /\ gen \in {"created", "running", "exhausted", "closed"}
    /\ gen = "running" => pc = "seq" /\ ENABLED SeqLoop

\* The empty batch, fully consumed on an instance with more than one worker.
C32_Witness ==
  /\ inst = "ready"
  /\ max_workers > 1
  /\ batch_prompts = << >>
  /\ gen = "exhausted"
  /\ pc = "end"

====
